---- MODULE Spec2Model ----
(***************************************************************************)
(* Model of the mev-commit preconfirmation pipeline:                       *)
(*   src/pipe/data_processing.py  storage accessor, join engine            *)
(*   src/pipe/query_commits.py    sync orchestrator (get_events), poll loop*)
(*                                                                         *)
(* A table of the DuckDB file is a bag (multiset) of rows: SQL tables and  *)
(* the anti-join of write_to_duckdb do not depend on row order.  A row     *)
(* carries the columns the code names: commitmentIndex and block_number,   *)
(* plus txnHash (commit_stores) and isSlash (commits_processed).  Keys and *)
(* block numbers are never NULL: they are decoded event fields.            *)
(***************************************************************************)
EXTENDS Naturals, Integers, Sequences, FiniteSets, Bags, TLC

VARIABLES
    db,              \* the DuckDB file: table name -> [exists, rows]
    pc,              \* position of the poll loop / get_events
    i,               \* index into the tables list of the running loop
    latest_blocks,   \* get_events: latest_blocks dict
    dataframes,      \* get_events: fetched DataFrame per table
    write_info,      \* get_events: write_info list (one action string per write)
    commitments_df,  \* value returned by the last completed get_events
    from_block,      \* get_events: from_block of the last event query
    err,             \* exception that left get_events (and the process)
    cursor_seen,     \* history: the last cursor a cycle computed for each table
    conn,            \* outcome of the last duckdb.connect of the process
    wcall,           \* history of the last direct write_to_duckdb call
    lcall,           \* history of the last direct get_latest_block_number call
    args,            \* read_db / read_single_table: the arguments of the call
    attempt,         \* read_db / read_single_table: attempt
    delay,           \* read_db / read_single_table: delay
    slept,           \* the time.sleep calls of the read, in order
    log,             \* the outcome of each connection attempt of the read, in order
    ret,             \* how the read ended: still running, returned, raised
    db_start,        \* history: the DuckDB file when the running cycle began
    no_data,         \* history: tables whose event query gave no rows in the cycle
    chain,           \* the events the event source holds, per table
    cycles,          \* history: the cycles of the process that returned
    last_view        \* history: the value the cycle before returned

cycleVars == <<pc, i, latest_blocks, dataframes, write_info, commitments_df,
               from_block, err, cursor_seen>>

callVars == <<wcall, lcall>>

retryVars == <<args, attempt, delay, slept, log, ret>>

historyVars == <<db_start, no_data>>

sourceVars == <<chain, cycles, last_view>>

vars == <<db, conn, cycleVars, callVars, retryVars, historyVars, sourceVars>>

---------------------------------------------------------------------------
(* Bounds of the model *)

\* most rows the event source returns in one cycle (and most rows of the
\* DataFrame of one direct write_to_duckdb call)
MaxFetch == 2
\* most rows a table is let grow to
MaxRows == 2
\* max_retries arguments are 0..MaxRetries (the default, 5, among them)
MaxRetries == 5
\* initial_delay arguments are 1..MaxDelay (the default, 1.0, among them)
MaxDelay == 2
\* backoff_factor arguments are 1..MaxFactor (the default, 2.0, among them)
MaxFactor == 3
\* most rows a table holds when the event source stops changing
MaxStored == 1
\* most events the unchanging event source holds for one table
MaxChain == 1
\* most cycles counted after the event source stopped changing
MaxCycles == 2

---------------------------------------------------------------------------
(* Tables and rows *)

\* query_commits.py: the tables list of get_events, in its order
TableList == <<"commit_stores", "encrypted_stores", "commits_processed">>

Tables == {TableList[n] : n \in 1..Len(TableList)}

\* the commitmentIndex values of the events
CommitmentIndexes == {1, 2}

\* the block_number values of the events
BlockNumbers == {1, 2}

\* txnHash values of OpenedCommitmentStored events: without and with a prefix
TxnHashes == {"ab", "0xab"}

\* A commitment's payload is fixed by the commitment: the txnHash and the
\* isSlash flag the event source reports for commitmentIndex k
TxnHashOf(k) == IF k % 2 = 1 THEN "ab" ELSE "0xab"

IsSlashOf(k) == k % 2 = 0

\* The rows the event source can return for a table
EventRows(t) ==
    CASE t = "encrypted_stores" ->
            {[commitmentIndex |-> k, block_number |-> b] :
                k \in CommitmentIndexes, b \in BlockNumbers}
      [] t = "commit_stores" ->
            {[commitmentIndex |-> k, block_number |-> b, txnHash |-> TxnHashOf(k)] :
                k \in CommitmentIndexes, b \in BlockNumbers}
      [] t = "commits_processed" ->
            {[commitmentIndex |-> k, block_number |-> b, isSlash |-> IsSlashOf(k)] :
                k \in CommitmentIndexes, b \in BlockNumbers}

\* Bags over the set S with exactly n elements
RECURSIVE BagsOfSize(_, _)
BagsOfSize(S, n) ==
    IF n = 0 THEN {EmptyBag}
    ELSE {b (+) SetToBag({x}) : b \in BagsOfSize(S, n - 1), x \in S}

\* Bags over S with at most n elements
BagsUpTo(S, n) == UNION {BagsOfSize(S, k) : k \in 0..n}

\* DataFrames (row bags) of at most n rows for table t
DataFrames(t, n) == BagsUpTo(EventRows(t), n)

\* len(df)
Len_df(df) == BagCardinality(df)

\* df.is_empty()
is_empty(df) == BagCardinality(df) = 0

\* the commitmentIndex column of a row bag, as a set
KeysOf(rows) == {r.commitmentIndex : r \in BagToSet(rows)}

\* number of rows of a bag that carry commitmentIndex k
KeyCount(rows, k) ==
    BagCardinality([r \in {x \in BagToSet(rows) : x.commitmentIndex = k}
                        |-> CopiesIn(r, rows)])

NoTable == [exists |-> FALSE, rows |-> EmptyBag]

EmptyStore == [t \in Tables |-> NoTable]

---------------------------------------------------------------------------
(* Outcomes of opening a connection and running the statements of one call *)

\* duckdb.connect / conn.execute: success, an IOException for a file lock held
\* by another process, or any other IOException
ConnOutcomes == {"ok", "lock", "io"}

\* the exception a failed connection outcome raises
Raised(c) ==
    CASE c = "ok" -> "none"
      [] c = "lock" -> "IOException:Conflicting lock"
      [] c = "io" -> "IOException:other"

\* information_schema.tables lookup of write_to_duckdb / get_latest_block_number
table_exists(store, table_name) == store[table_name].exists

---------------------------------------------------------------------------
(* Storage accessor: write_to_duckdb *)

\* AntiJoin with the filter lost: a plain INSERT INTO t SELECT * FROM df_temp
AntiJoin_InsertAll(df, existing) == df

\* SELECT new.* FROM df_temp AS new LEFT JOIN existing USING(commitmentIndex)
\* WHERE existing.commitmentIndex IS NULL
AntiJoin(df, existing) ==
    [r \in {x \in BagToSet(df) : x.commitmentIndex \notin KeysOf(existing)}
        |-> CopiesIn(r, df)]

\* CREATE TABLE t AS SELECT * FROM df_temp
CreateTableAs(store, table_name, df) ==
    [store EXCEPT ![table_name] = [exists |-> TRUE, rows |-> df]]

\* InsertNew as an upsert, INSERT OR REPLACE INTO t SELECT * FROM df_temp: the
\* stored rows whose commitmentIndex is in df give way to the rows of df
InsertNew_Replace(store, table_name, df) ==
    [store EXCEPT ![table_name] =
        [exists |-> TRUE,
         rows |-> [r \in {x \in BagToSet(@.rows) : x.commitmentIndex \notin KeysOf(df)}
                      |-> CopiesIn(r, @.rows)] (+) df]]

\* INSERT INTO t SELECT ... (the anti-join above)
InsertNew(store, table_name, df) ==
    [store EXCEPT ![table_name] =
        [exists |-> TRUE, rows |-> @.rows (+) AntiJoin(df, @.rows)]]

\* write_to_duckdb without the df.is_empty() return: an empty DataFrame goes
\* through the connection, the CREATE or the INSERT like any other
write_to_duckdb_NoEmptyCheck(df, table_name, store, c) ==
    IF c # "ok"
    THEN [store |-> store, raised |-> Raised(c), connects |-> 1,
          action |-> [table |-> table_name, kind |-> "", n |-> 0]]
    ELSE IF ~table_exists(store, table_name)
    THEN [store |-> CreateTableAs(store, table_name, df), raised |-> "none",
          connects |-> 1,
          action |-> [table |-> table_name, kind |-> "created", n |-> Len_df(df)]]
    ELSE [store |-> InsertNew(store, table_name, df), raised |-> "none",
          connects |-> 1,
          action |-> [table |-> table_name, kind |-> "inserted", n |-> Len_df(df)]]

\* write_to_duckdb with a handler around the connection that swallows an
\* IOException which is no lock conflict and returns an error string
write_to_duckdb_SwallowIO(df, table_name, store, c) ==
    IF is_empty(df)
    THEN [store |-> store, raised |-> "none", connects |-> 0,
          action |-> [table |-> table_name, kind |-> "no new data", n |-> 0]]
    ELSE IF c = "io"
    THEN [store |-> store, raised |-> "none", connects |-> 1,
          action |-> [table |-> table_name, kind |-> "error", n |-> 0]]
    ELSE IF c # "ok"
    THEN [store |-> store, raised |-> Raised(c), connects |-> 1,
          action |-> [table |-> table_name, kind |-> "", n |-> 0]]
    ELSE IF ~table_exists(store, table_name)
    THEN [store |-> CreateTableAs(store, table_name, df), raised |-> "none",
          connects |-> 1,
          action |-> [table |-> table_name, kind |-> "created", n |-> Len_df(df)]]
    ELSE [store |-> InsertNew(store, table_name, df), raised |-> "none",
          connects |-> 1,
          action |-> [table |-> table_name, kind |-> "inserted", n |-> Len_df(df)]]

\* write_to_duckdb(df, table_name, db_filename) under connection outcome c:
\* the store after the call, the action string it returns, the exception raised
\* and the number of duckdb.connect calls made
write_to_duckdb(df, table_name, store, c) ==
    IF is_empty(df)
    THEN [store |-> store, raised |-> "none", connects |-> 0,
          action |-> [table |-> table_name, kind |-> "no new data", n |-> 0]]
    ELSE IF c # "ok"
    THEN [store |-> store, raised |-> Raised(c), connects |-> 1,
          action |-> [table |-> table_name, kind |-> "", n |-> 0]]
    ELSE IF ~table_exists(store, table_name)
    THEN [store |-> CreateTableAs(store, table_name, df), raised |-> "none",
          connects |-> 1,
          action |-> [table |-> table_name, kind |-> "created", n |-> Len_df(df)]]
    ELSE [store |-> InsertNew(store, table_name, df), raised |-> "none",
          connects |-> 1,
          action |-> [table |-> table_name, kind |-> "inserted", n |-> Len_df(df)]]

---------------------------------------------------------------------------
(* Storage accessor: get_latest_block_number *)

SetMax(S) == CHOOSE m \in S : \A x \in S : x <= m

SetMin(S) == CHOOSE m \in S : \A x \in S : m <= x

\* SelectMax with the wrong aggregate: SELECT MIN(block_column) FROM table_name
SelectMax_Min(store, table_name) ==
    LET blocks == {r.block_number : r \in BagToSet(store[table_name].rows)}
    IN IF blocks = {} THEN [null |-> TRUE, value |-> 0]
       ELSE [null |-> FALSE, value |-> SetMin(blocks)]

\* SELECT MAX(block_column) FROM table_name: NULL on a table without rows
SelectMax(store, table_name) ==
    LET blocks == {r.block_number : r \in BagToSet(store[table_name].rows)}
    IN IF blocks = {} THEN [null |-> TRUE, value |-> 0]
       ELSE [null |-> FALSE, value |-> SetMax(blocks)]

\* get_latest_block_number without the check that the table exists: the
\* SELECT on a missing table raises
get_latest_block_number_NoCheck(table_name, store, c) ==
    IF c # "ok" THEN [raised |-> Raised(c), value |-> 0, connects |-> 1]
    ELSE IF ~table_exists(store, table_name)
    THEN [raised |-> "CatalogException", value |-> 0, connects |-> 1]
    ELSE LET result == SelectMax(store, table_name)
         IN [raised |-> "none", connects |-> 1,
             value |-> IF result.null THEN 0 ELSE result.value]

\* get_latest_block_number with a handler that swallows a lock conflict and
\* reports the cursor as 0
get_latest_block_number_SwallowLock(table_name, store, c) ==
    IF c = "io" THEN [raised |-> Raised(c), value |-> 0, connects |-> 1]
    ELSE IF c = "lock" \/ ~table_exists(store, table_name)
    THEN [raised |-> "none", value |-> 0, connects |-> 1]
    ELSE LET result == SelectMax(store, table_name)
         IN [raised |-> "none", connects |-> 1,
             value |-> IF result.null THEN 0 ELSE result.value]

\* get_latest_block_number(table_name, block_column, db_filename) under
\* connection outcome c: the value returned, the exception raised and the
\* number of duckdb.connect calls made
get_latest_block_number(table_name, store, c) ==
    IF c # "ok" THEN [raised |-> Raised(c), value |-> 0, connects |-> 1]
    ELSE IF ~table_exists(store, table_name)
    THEN [raised |-> "none", value |-> 0, connects |-> 1]
    ELSE LET result == SelectMax(store, table_name)
         IN [raised |-> "none", connects |-> 1,
             value |-> IF result.null THEN 0 ELSE result.value]

---------------------------------------------------------------------------
(* Storage accessor: load_data_from_duckdb *)

\* load_data_from_duckdb handing the DataFrames fetched in the cycle to the
\* join, in place of reading the tables
load_data_from_duckdb_Fetched(store, c) ==
    IF c # "ok" THEN [raised |-> Raised(c), dataframes |-> <<>>, connects |-> 1]
    ELSE IF \E t \in Tables : ~table_exists(store, t)
    THEN [raised |-> "CatalogException", dataframes |-> <<>>, connects |-> 1]
    ELSE [raised |-> "none", connects |-> 1,
          dataframes |-> [t \in Tables |->
                            IF t \in DOMAIN dataframes THEN dataframes[t]
                            ELSE EmptyBag]]

\* load_data_from_duckdb reading only the tables that exist, with an empty
\* DataFrame for each of the others
load_data_from_duckdb_SkipMissing(store, c) ==
    IF c # "ok" THEN [raised |-> Raised(c), dataframes |-> <<>>, connects |-> 1]
    ELSE [raised |-> "none", connects |-> 1,
          dataframes |-> [t \in Tables |-> store[t].rows]]

\* load_data_from_duckdb(db_filename): SELECT * FROM each of the three tables;
\* a table that does not exist raises a CatalogException
load_data_from_duckdb(store, c) ==
    IF c # "ok" THEN [raised |-> Raised(c), dataframes |-> <<>>, connects |-> 1]
    ELSE IF \E t \in Tables : ~table_exists(store, t)
    THEN [raised |-> "CatalogException", dataframes |-> <<>>, connects |-> 1]
    ELSE [raised |-> "none", connects |-> 1,
          dataframes |-> [t \in Tables |-> store[t].rows]]

---------------------------------------------------------------------------
(* Join engine: join_dataframes *)

\* InnerJoin with the key condition lost: a cross join
InnerJoin_Cross(left, right) ==
    LET pairs == BagToSet(left) \X BagToSet(right)
    IN [p \in pairs |-> CopiesIn(p[1], left) * CopiesIn(p[2], right)]

\* left.join(right, on="commitmentIndex", how="inner"): the matching pairs
\* <<left row, right row>>, each as often as its two rows occur
InnerJoin(left, right) ==
    LET pairs == {p \in BagToSet(left) \X BagToSet(right) :
                    p[1].commitmentIndex = p[2].commitmentIndex}
    IN [p \in pairs |-> CopiesIn(p[1], left) * CopiesIn(p[2], right)]

\* EncryptedCommitRow with the prefix added only to a txnHash that has none
EncryptedCommitRow_PrefixOnce(p) ==
    [commitmentIndex |-> p[1].commitmentIndex,
     block_number |-> p[1].block_number,
     block_number_right |-> p[2].block_number,
     txnHash |-> IF p[2].txnHash \in {"0x" \o h : h \in TxnHashes}
                 THEN p[2].txnHash
                 ELSE "0x" \o p[2].txnHash]

\* the columns of a pair of encrypted_stores joined with commit_stores: the
\* left block_number keeps its name, the right one becomes block_number_right;
\* then txnHash = "0x" + txnHash
EncryptedCommitRow(p) ==
    [commitmentIndex |-> p[1].commitmentIndex,
     block_number |-> p[1].block_number,
     block_number_right |-> p[2].block_number,
     txnHash |-> "0x" \o p[2].txnHash]

\* commits_processed_df.select("commitmentIndex", "isSlash")
SelectIsSlash(r) == [commitmentIndex |-> r.commitmentIndex, isSlash |-> r.isSlash]

\* CommitmentRow with the alias taken from the block_number of commit_stores
CommitmentRow_CommitBlock(p) ==
    [block_number_encrypted |-> p[1].block_number_right,
     txnHash |-> p[1].txnHash,
     isSlash |-> p[2].isSlash,
     commitmentIndex |-> p[1].commitmentIndex]

\* the columns of a pair of the second join, block_number aliased to
\* block_number_encrypted, after the final select (the columns of the model)
CommitmentRow(p) ==
    [block_number_encrypted |-> p[1].block_number,
     txnHash |-> p[1].txnHash,
     isSlash |-> p[2].isSlash,
     commitmentIndex |-> p[1].commitmentIndex]

\* join_dataframes(dataframes)
join_dataframes(dfs) ==
    LET encrypted_stores_df == dfs["encrypted_stores"]
        commit_stores_df == dfs["commit_stores"]
        commits_processed_df == dfs["commits_processed"]
        joined == BagOfAll(EncryptedCommitRow,
                           InnerJoin(encrypted_stores_df, commit_stores_df))
    IN BagOfAll(CommitmentRow,
                InnerJoin(joined, BagOfAll(SelectIsSlash, commits_processed_df)))

---------------------------------------------------------------------------
(* Sync orchestrator get_events and the poll loop *)

\* query_commits.py: db_filename of get_events
DbFilename == "mev_commit.duckdb"

NoView == [returned |-> FALSE, rows |-> EmptyBag]

NoErr == [raised |-> "none", op |-> "none", connects |-> 0]

NoCall == [table |-> "none", df |-> EmptyBag, kind |-> "none", repeated |-> FALSE]

NoLatest == [table |-> "none", called |-> FALSE, raised |-> "none", value |-> 0]

NoArgs ==
    [fn |-> "none", table |-> "none", tables |-> {}, max_retries |-> 0,
     initial_delay |-> 0, backoff_factor |-> 0]

NoRet == [status |-> "none"]

NoChain == [t \in Tables |-> {}]

\* d[k] = v added to (or replaced in) a dict
Put(d, k, v) == [x \in (DOMAIN d) \cup {k} |-> IF x = k THEN v ELSE d[x]]

\* d.get(k, default)
Get(d, k, default) == IF k \in DOMAIN d THEN d[k] ELSE default

\* rows fetched so far in the running cycle
RECURSIVE RowsIn(_, _)
RowsIn(dfs, ts) ==
    IF ts = {} THEN 0
    ELSE LET t == CHOOSE x \in ts : TRUE
         IN Len_df(dfs[t]) + RowsIn(dfs, ts \ {t})

Fetched == RowsIn(dataframes, DOMAIN dataframes)

\* the locals of get_events before its first statement
ClearLocals ==
    /\ i' = 1
    /\ latest_blocks' = <<>>
    /\ dataframes' = <<>>
    /\ write_info' = <<>>
    /\ from_block' = 0

\* an exception leaves get_events; the poll loop has no handler, the process ends
Raise(r, op) ==
    /\ pc' = "crashed"
    /\ err' = [raised |-> r.raised, op |-> op, connects |-> r.connects]
    /\ ClearLocals
    /\ UNCHANGED commitments_df

\* the loop index after the body ran for table i: the next table, or the next
\* stage of get_events
Advance(next) ==
    IF i < Len(TableList)
    THEN /\ i' = i + 1
         /\ pc' = pc
    ELSE /\ i' = 1
         /\ pc' = next

\* for table in tables: latest_blocks[table] = get_latest_block_number(...)
GetLatest ==
    /\ pc = "latest"
    /\ \E c \in ConnOutcomes :
         LET table_name == TableList[i]
             r == get_latest_block_number(table_name, db, c)
         IN /\ conn' = c
            /\ IF r.raised # "none"
               THEN /\ Raise(r, "get_latest_block_number")
                    /\ UNCHANGED cursor_seen
               ELSE /\ latest_blocks' = Put(latest_blocks, table_name, r.value)
                    /\ cursor_seen' = [cursor_seen EXCEPT ![table_name] = r.value]
                    /\ Advance("fetch")
                    /\ UNCHANGED <<dataframes, write_info, commitments_df,
                                   from_block, err>>
    /\ UNCHANGED <<db, callVars, retryVars, historyVars, sourceVars>>

\* df = await manager.execute_event_query(event_config, from_block=from_block)
\* returned rows: dataframes[table_name] = df
FetchRows ==
    /\ pc = "fetch"
    /\ LET table_name == TableList[i]
       IN \E df \in DataFrames(table_name, MaxFetch - Fetched) :
            /\ ~is_empty(df)
            /\ Len_df(write_to_duckdb(df, table_name, db, "ok").store[table_name].rows)
                 <= MaxRows
            /\ from_block' = Get(latest_blocks, table_name, 0) + 1
            /\ dataframes' = Put(dataframes, table_name, df)
            /\ Advance("write")
    /\ UNCHANGED <<db, conn, latest_blocks, write_info, commitments_df, err,
                   cursor_seen, callVars, retryVars, historyVars, sourceVars>>

\* FetchNoData without the except clause: the ValueError leaves get_events
FetchNoData_Propagates ==
    /\ pc = "fetch"
    /\ no_data' = no_data \cup {TableList[i]}
    /\ Raise([raised |-> "ValueError", connects |-> 0], "execute_event_query")
    /\ UNCHANGED <<db, conn, cursor_seen, callVars, retryVars, db_start, sourceVars>>

\* the query signalled that it has no data, except ValueError:
\* dataframes[table_name] = pl.DataFrame().  A query that returns a DataFrame
\* without rows leaves get_events in the same state ("0 new records", an empty
\* dataframes[table_name]) and is this action too.
FetchNoData ==
    /\ pc = "fetch"
    /\ LET table_name == TableList[i]
       IN /\ from_block' = Get(latest_blocks, table_name, 0) + 1
          /\ dataframes' = Put(dataframes, table_name, EmptyBag)
          /\ no_data' = no_data \cup {table_name}
          /\ Advance("write")
    /\ UNCHANGED <<db, conn, latest_blocks, write_info, commitments_df, err,
                   cursor_seen, callVars, retryVars, db_start, sourceVars>>

\* any other exception of the event query is not caught
FetchError ==
    /\ pc = "fetch"
    /\ Raise([raised |-> "QueryError", connects |-> 0], "execute_event_query")
    /\ UNCHANGED <<db, conn, cursor_seen, callVars, retryVars, historyVars,
                   sourceVars>>

\* for table_name, df in dataframes.items(): write_to_duckdb(df, table_name, ...)
WriteTable ==
    /\ pc = "write"
    /\ \E c \in ConnOutcomes :
         LET table_name == TableList[i]
             r == write_to_duckdb(dataframes[table_name], table_name, db, c)
         IN /\ conn' = IF r.connects = 0 THEN conn ELSE c
            /\ db' = r.store
            /\ IF r.raised # "none"
               THEN Raise(r, "write_to_duckdb")
               ELSE /\ write_info' = Append(write_info, r.action)
                    /\ Advance("load")
                    /\ UNCHANGED <<latest_blocks, dataframes, commitments_df,
                                   from_block, err>>
    /\ UNCHANGED <<cursor_seen, callVars, retryVars, historyVars, sourceVars>>

\* loaded_dataframes = load_data_from_duckdb(db_filename);
\* commitments_df = join_dataframes(loaded_dataframes); return commitments_df
LoadAndJoin ==
    /\ pc = "load"
    /\ \E c \in ConnOutcomes :
         LET r == load_data_from_duckdb(db, c)
         IN /\ conn' = c
            /\ IF r.raised # "none"
               THEN Raise(r, "load_data_from_duckdb")
               ELSE /\ commitments_df' =
                         [returned |-> TRUE, rows |-> join_dataframes(r.dataframes)]
                    /\ pc' = "sleep"
                    /\ ClearLocals
                    /\ UNCHANGED err
    /\ UNCHANGED <<db, cursor_seen, callVars, retryVars, historyVars, sourceVars>>

\* time.sleep(30), then the next asyncio.run(get_events())
Sleep ==
    /\ pc = "sleep"
    /\ pc' = "latest"
    /\ commitments_df' = NoView
    /\ db_start' = db
    /\ no_data' = {}
    /\ UNCHANGED <<db, conn, i, latest_blocks, dataframes, write_info, from_block,
                   err, cursor_seen, callVars, retryVars, sourceVars>>

\* the process is started again on the same database file
Restart ==
    /\ pc = "crashed"
    /\ pc' = "latest"
    /\ err' = NoErr
    /\ conn' = "none"
    /\ db_start' = db
    /\ no_data' = {}
    /\ UNCHANGED <<db, i, latest_blocks, dataframes, write_info, commitments_df,
                   from_block, cursor_seen, callVars, retryVars, sourceVars>>

\* the locals of get_events in a process that has not run it
IdleCycle ==
    /\ pc = "none"
    /\ i = 1
    /\ latest_blocks = <<>>
    /\ dataframes = <<>>
    /\ write_info = <<>>
    /\ commitments_df = NoView
    /\ from_block = 0
    /\ err = NoErr
    /\ cursor_seen = [t \in Tables |-> 0]

IdleCalls == wcall = NoCall /\ lcall = NoLatest

\* no cycle has begun, no event query has run
IdleHistory == db_start = EmptyStore /\ no_data = {}

\* the event source is not part of the run
IdleSource == chain = NoChain /\ cycles = 0 /\ last_view = NoView

IdleRetry ==
    /\ args = NoArgs
    /\ attempt = 0
    /\ delay = 0
    /\ slept = <<>>
    /\ log = <<>>
    /\ ret = NoRet

\* python query_commits.py on a new database file
Init ==
    /\ db = EmptyStore
    /\ conn = "none"
    /\ pc = "latest"
    /\ i = 1
    /\ latest_blocks = <<>>
    /\ dataframes = <<>>
    /\ write_info = <<>>
    /\ commitments_df = NoView
    /\ from_block = 0
    /\ err = NoErr
    /\ cursor_seen = [t \in Tables |-> 0]
    /\ IdleCalls
    /\ IdleRetry
    /\ IdleHistory
    /\ IdleSource

Next ==
    \/ GetLatest
    \/ FetchRows
    \/ FetchNoData
    \/ FetchError
    \/ WriteTable
    \/ LoadAndJoin
    \/ Sleep
    \/ Restart

Spec == Init /\ [][Next]_vars

---------------------------------------------------------------------------
(* Direct calls of write_to_duckdb on one table *)

\* the action kinds of a write_to_duckdb call that returned
ReturnedKinds == {"no new data", "created", "inserted"}

\* write_to_duckdb(df, wcall.table, db_filename)
WriteCall ==
    /\ pc = "none"
    /\ wcall.table \in Tables
    /\ \E df \in DataFrames(wcall.table, MaxFetch), c \in ConnOutcomes :
         LET r == write_to_duckdb(df, wcall.table, db, c)
         IN /\ Len_df(r.store[wcall.table].rows) <= MaxRows
            /\ db' = r.store
            /\ conn' = IF r.connects = 0 THEN conn ELSE c
            /\ wcall' = [table |-> wcall.table,
                         df |-> df,
                         kind |-> IF r.raised # "none" THEN "raised" ELSE r.action.kind,
                         repeated |-> wcall.kind \in ReturnedKinds /\ wcall.df = df]
    /\ UNCHANGED <<cycleVars, lcall, retryVars, historyVars, sourceVars>>

\* a caller about to write to one of the tables of a new database file
InitWrite ==
    /\ db = EmptyStore
    /\ conn = "none"
    /\ IdleCycle
    /\ wcall \in {[NoCall EXCEPT !.table = t] : t \in Tables}
    /\ lcall = NoLatest
    /\ IdleRetry
    /\ IdleHistory
    /\ IdleSource

NextWrite == WriteCall

SpecWrite == InitWrite /\ [][NextWrite]_vars

---------------------------------------------------------------------------
(* Direct calls of get_latest_block_number on one table *)

\* the states of a table in a database file: absent, or present with at most
\* MaxRows rows (without any, when it was created by another program)
TableStates(t) ==
    {NoTable} \cup {[exists |-> TRUE, rows |-> b] : b \in BagsUpTo(EventRows(t), MaxRows)}

\* get_latest_block_number(lcall.table, "block_number", db_filename)
LatestCall ==
    /\ pc = "none"
    /\ lcall.table \in Tables
    /\ \E c \in ConnOutcomes :
         LET r == get_latest_block_number(lcall.table, db, c)
         IN /\ conn' = c
            /\ lcall' = [table |-> lcall.table, called |-> TRUE,
                         raised |-> r.raised, value |-> r.value]
    /\ UNCHANGED <<db, cycleVars, wcall, retryVars, historyVars, sourceVars>>

InitLatest ==
    /\ \E t \in Tables :
         /\ db \in {[EmptyStore EXCEPT ![t] = st] : st \in TableStates(t)}
         /\ lcall = [NoLatest EXCEPT !.table = t]
    /\ conn = "none"
    /\ IdleCycle
    /\ wcall = NoCall
    /\ IdleRetry
    /\ IdleHistory
    /\ IdleSource

NextLatest == LatestCall

SpecLatest == InitLatest /\ [][NextLatest]_vars

---------------------------------------------------------------------------
(* read_db and read_single_table: reads with retry on lock conflicts *)

\* outcomes of one connection attempt of a read: the three of ConnOutcomes and
\* an IOException whose message says "database is locked"
ReadOutcomes == ConnOutcomes \cup {"locked"}

\* IsLockConflict with the message test lost: every IOException is retried
IsLockConflict_AnyIOError(o) == o # "ok"

\* "Conflicting lock" in str(e) or "database is locked" in str(e).lower()
IsLockConflict(o) == o \in {"lock", "locked"}

\* LoopGuard without the bound: while True
LoopGuard_Unbounded(a, max_retries) == TRUE

\* LoopGuard off by one: while attempt <= max_retries
LoopGuard_OffByOne(a, max_retries) == a <= max_retries

\* while attempt < max_retries
LoopGuard(a, max_retries) == a < max_retries

\* NextDelay with a linear backoff: delay += backoff_factor
NextDelay_Linear(d, backoff_factor) == d + backoff_factor

\* delay *= backoff_factor
NextDelay(d, backoff_factor) == d * backoff_factor

\* the tables the call reads: the tables argument of read_db, the table
\* argument of read_single_table
ReadTables(a) == IF a.fn = "read_db" THEN a.tables ELSE {a.table}

\* what a successful read returns: a dict of DataFrames (read_db), a DataFrame
\* (read_single_table)
ReadData(a, store) ==
    IF a.fn = "read_db" THEN [t \in a.tables |-> store[t].rows]
    ELSE store[a.table].rows

\* raise Exception(f"Failed to read ... from {db_filename} after {max_retries}
\* attempts due to lock conflicts.")
RetriesExhausted(a) ==
    [class |-> "Exception", message |-> "Failed to read",
     db_filename |-> DbFilename, attempts |-> a.max_retries,
     table |-> IF a.fn = "read_single_table" THEN a.table ELSE "none"]

\* an exception of the attempt itself, which leaves the call as it is
Propagated(class, message) ==
    [class |-> class, message |-> message,
     db_filename |-> "none", attempts |-> 0, table |-> "none"]

\* one pass of the while loop: connect, read, return; or handle the exception
ReadAttempt ==
    /\ ret.status = "running"
    /\ LoopGuard(attempt, args.max_retries)
    /\ \E o \in ReadOutcomes :
         /\ conn' = o
         /\ log' = Append(log, o)
         /\ IF o = "ok"
            THEN /\ ret' = IF \A t \in ReadTables(args) : table_exists(db, t)
                           THEN [status |-> "returned", data |-> ReadData(args, db)]
                           ELSE [status |-> "raised",
                                 exc |-> Propagated("CatalogException", "no table")]
                 /\ UNCHANGED <<attempt, delay, slept>>
            ELSE IF IsLockConflict(o)
            THEN /\ attempt' = attempt + 1
                 /\ slept' = Append(slept, delay)
                 /\ delay' = NextDelay(delay, args.backoff_factor)
                 /\ UNCHANGED ret
            ELSE /\ ret' = [status |-> "raised",
                            exc |-> Propagated("IOException", "other")]
                 /\ UNCHANGED <<attempt, delay, slept>>
    /\ UNCHANGED <<db, cycleVars, callVars, args, historyVars, sourceVars>>

\* the loop ends without a return: the terminal exception
ReadExhausted ==
    /\ ret.status = "running"
    /\ ~LoopGuard(attempt, args.max_retries)
    /\ ret' = [status |-> "raised", exc |-> RetriesExhausted(args)]
    /\ UNCHANGED <<db, conn, cycleVars, callVars, args, attempt, delay, slept, log,
                   historyVars, sourceVars>>

\* a row of table t, for the database files a read starts from
SampleRow(t) == CHOOSE r \in EventRows(t) : r.commitmentIndex = 1 /\ r.block_number = 1

\* database files a read starts from: new, with one table, with all three
SampleStores ==
    {EmptyStore,
     CreateTableAs(EmptyStore, "commit_stores",
                   SetToBag({SampleRow("commit_stores")})),
     [t \in Tables |-> [exists |-> TRUE, rows |-> SetToBag({SampleRow(t)})]]}

\* the calls: read_db(db_filename, tables, ...) with the three tables, and
\* read_single_table(db_filename, table, ...)
ReadCalls ==
    [fn : {"read_db"}, table : {"none"}, tables : {Tables},
     max_retries : 0..MaxRetries,
     initial_delay : 1..MaxDelay, backoff_factor : 1..MaxFactor]
    \cup
    [fn : {"read_single_table"}, table : Tables, tables : {{}},
     max_retries : 0..MaxRetries,
     initial_delay : 1..MaxDelay, backoff_factor : 1..MaxFactor]

\* a call entered: attempt = 0, delay = initial_delay
InitRetry ==
    /\ db \in SampleStores
    /\ conn = "none"
    /\ IdleCycle
    /\ IdleCalls
    /\ args \in ReadCalls
    /\ attempt = 0
    /\ delay = args.initial_delay
    /\ slept = <<>>
    /\ log = <<>>
    /\ ret = [status |-> "running"]
    /\ IdleHistory
    /\ IdleSource

NextRetry ==
    \/ ReadAttempt
    \/ ReadExhausted

SpecRetry == InitRetry /\ [][NextRetry]_vars

\* the call is sequential code: while it has a statement to run, it runs it
\* (every connection attempt ends, every time.sleep returns)
SpecRetryFair == SpecRetry /\ WF_vars(NextRetry)

---------------------------------------------------------------------------
(* Direct calls of join_dataframes *)

\* the rows a table can hold when join_dataframes is called on its own: any
\* txnHash with any commitmentIndex
JoinRows(t) ==
    IF t = "commit_stores"
    THEN [commitmentIndex : CommitmentIndexes, block_number : BlockNumbers,
          txnHash : TxnHashes]
    ELSE EventRows(t)

\* commitments_df = join_dataframes(dataframes)
JoinCall ==
    /\ pc = "join"
    /\ ~commitments_df.returned
    /\ commitments_df' = [returned |-> TRUE, rows |-> join_dataframes(dataframes)]
    /\ UNCHANGED <<db, conn, pc, i, latest_blocks, dataframes, write_info,
                   from_block, err, cursor_seen, callVars, retryVars, historyVars,
                   sourceVars>>

\* a caller holding three DataFrames of at most MaxRows rows each
InitJoin ==
    /\ db = EmptyStore
    /\ conn = "none"
    /\ pc = "join"
    /\ i = 1
    /\ latest_blocks = <<>>
    /\ \E e \in BagsUpTo(JoinRows("encrypted_stores"), MaxRows),
          c \in BagsUpTo(JoinRows("commit_stores"), MaxRows),
          p \in BagsUpTo(JoinRows("commits_processed"), MaxRows) :
         dataframes = [t \in Tables |->
                         CASE t = "encrypted_stores" -> e
                           [] t = "commit_stores" -> c
                           [] t = "commits_processed" -> p]
    /\ write_info = <<>>
    /\ commitments_df = NoView
    /\ from_block = 0
    /\ err = NoErr
    /\ cursor_seen = [t \in Tables |-> 0]
    /\ IdleCalls
    /\ IdleRetry
    /\ IdleHistory
    /\ IdleSource

NextJoin == JoinCall

SpecJoin == InitJoin /\ [][NextJoin]_vars

---------------------------------------------------------------------------
(* Cycles on an event source that no longer changes, without faults *)

\* the events of table t the source holds from block from on:
\* execute_event_query(event_config, from_block=from)
SourceEvents(source, t, from) == {e \in source[t] : e.block_number >= from}

\* the subsets of S with at most n elements
SubsetsUpTo(S, n) == {x \in SUBSET S : Cardinality(x) <= n}

\* the query returns the events of the source from from_block on (none: the
\* ValueError or the empty result of FetchNoData)
FetchFromChain ==
    /\ pc = "fetch"
    /\ LET table_name == TableList[i]
           from == Get(latest_blocks, table_name, 0) + 1
           df == SetToBag(SourceEvents(chain, table_name, from))
       IN /\ from_block' = from
          /\ dataframes' = Put(dataframes, table_name, df)
          /\ no_data' = IF is_empty(df) THEN no_data \cup {table_name} ELSE no_data
          /\ Advance("write")
    /\ UNCHANGED <<db, conn, latest_blocks, write_info, commitments_df, err,
                   cursor_seen, callVars, retryVars, db_start, sourceVars>>

\* the storage calls of the cycle, when every connection opens
QuietGetLatest == GetLatest /\ conn' = "ok"

QuietWriteTable == WriteTable /\ conn' \notin {"lock", "io"}

QuietLoadAndJoin == LoadAndJoin /\ conn' = "ok"

\* time.sleep(30), then the next asyncio.run(get_events()); the cycle that
\* returned is counted and its view remembered
SleepCounted ==
    /\ pc = "sleep"
    /\ cycles < MaxCycles
    /\ pc' = "latest"
    /\ cycles' = cycles + 1
    /\ last_view' = commitments_df
    /\ commitments_df' = NoView
    /\ db_start' = db
    /\ no_data' = {}
    /\ UNCHANGED <<db, conn, i, latest_blocks, dataframes, write_info, from_block,
                   err, cursor_seen, callVars, retryVars, chain>>

\* the tables as earlier cycles, on an event source that was still changing,
\* can have left them: absent, or created with rows
StoredStates(t) ==
    {NoTable} \cup
    {[exists |-> TRUE, rows |-> b] :
        b \in BagsUpTo(EventRows(t), MaxStored) \ {EmptyBag}}

\* a cycle begins; from here on the event source holds the events of chain
InitQuiesce ==
    /\ db \in [Tables -> UNION {StoredStates(t) : t \in Tables}]
    /\ \A t \in Tables : db[t] \in StoredStates(t)
    /\ chain \in [Tables -> UNION {SubsetsUpTo(EventRows(t), MaxChain) : t \in Tables}]
    /\ \A t \in Tables : chain[t] \in SubsetsUpTo(EventRows(t), MaxChain)
    /\ conn = "none"
    /\ pc = "latest"
    /\ i = 1
    /\ latest_blocks = <<>>
    /\ dataframes = <<>>
    /\ write_info = <<>>
    /\ commitments_df = NoView
    /\ from_block = 0
    /\ err = NoErr
    /\ cursor_seen = [t \in Tables |-> 0]
    /\ IdleCalls
    /\ IdleRetry
    /\ db_start = db
    /\ no_data = {}
    /\ cycles = 0
    /\ last_view = NoView

NextQuiesce ==
    \/ QuietGetLatest
    \/ FetchFromChain
    \/ QuietWriteTable
    \/ QuietLoadAndJoin
    \/ SleepCounted

SpecQuiesce == InitQuiesce /\ [][NextQuiesce]_vars

---------------------------------------------------------------------------
(* load_and_join_data: read_db, then join_dataframes, in one try block *)

\* the defaults of read_db, which load_and_join_data calls without them
DefaultMaxRetries == 5

DefaultInitialDelay == 1

DefaultBackoffFactor == 2

\* the classes of the exceptions read_db and join_dataframes raise; all derive
\* from Exception
ExceptionClasses ==
    {"IOException", "CatalogException", "Exception", "KeyError", "ColumnNotFoundError"}

\* Catches for a handler written as except duckdb.IOException
Catches_OnlyIOException(class) == class = "IOException"

\* except Exception as e
Catches(class) == class \in ExceptionClasses

\* what join_dataframes raises on the dict it is given: KeyError for a table
\* name that is no key of it, ColumnNotFoundError for a txnHash or isSlash
\* column that a DataFrame does not have
JoinRaises(dfs) ==
    IF ~(Tables \subseteq DOMAIN dfs) THEN "KeyError"
    ELSE IF \/ \E r \in BagToSet(dfs["commit_stores"]) : "txnHash" \notin DOMAIN r
            \/ \E r \in BagToSet(dfs["commits_processed"]) : "isSlash" \notin DOMAIN r
    THEN "ColumnNotFoundError"
    ELSE "none"

\* the exception, if any, that reaches the except clause of load_and_join_data
LoadJoinException ==
    IF ret.status = "raised" THEN ret.exc.class
    ELSE JoinRaises(ret.data)

\* read_db has ended: join_dataframes and return commitments_df, or the except
\* clause and return pl.DataFrame()
LoadJoinReturn ==
    /\ pc = "load_and_join"
    /\ ret.status \in {"returned", "raised"}
    /\ IF LoadJoinException = "none"
       THEN /\ commitments_df' = [returned |-> TRUE, rows |-> join_dataframes(ret.data)]
            /\ pc' = "returned"
            /\ UNCHANGED err
       ELSE IF Catches(LoadJoinException)
       THEN /\ commitments_df' = [returned |-> TRUE, rows |-> EmptyBag]
            /\ pc' = "returned"
            /\ UNCHANGED err
       ELSE /\ pc' = "crashed"
            /\ err' = [raised |-> LoadJoinException, op |-> "load_and_join_data",
                       connects |-> Len(log)]
            /\ UNCHANGED commitments_df
    /\ UNCHANGED <<db, conn, i, latest_blocks, dataframes, write_info, from_block,
                   cursor_seen, callVars, retryVars, historyVars, sourceVars>>

\* a database file written by another program: commit_stores has no txnHash
ForeignStore ==
    [t \in Tables |->
        [exists |-> TRUE,
         rows |-> IF t = "commit_stores"
                  THEN SetToBag({[commitmentIndex |-> 1, block_number |-> 1]})
                  ELSE SetToBag({SampleRow(t)})]]

\* a database file whose three tables have no commitmentIndex in common
DisjointStore ==
    [t \in Tables |->
        [exists |-> TRUE,
         rows |-> IF t = "commits_processed"
                  THEN SetToBag({CHOOSE r \in EventRows(t) :
                                    r.commitmentIndex = 2 /\ r.block_number = 2})
                  ELSE SetToBag({SampleRow(t)})]]

\* the database files load_and_join_data is called on
LoadStores == SampleStores \cup {ForeignStore, DisjointStore}

\* load_and_join_data(db_filename, tables), tables any list of the table names
InitLoadJoin ==
    /\ db \in LoadStores
    /\ conn = "none"
    /\ pc = "load_and_join"
    /\ i = 1
    /\ latest_blocks = <<>>
    /\ dataframes = <<>>
    /\ write_info = <<>>
    /\ commitments_df = NoView
    /\ from_block = 0
    /\ err = NoErr
    /\ cursor_seen = [t \in Tables |-> 0]
    /\ IdleCalls
    /\ args \in [fn : {"read_db"}, table : {"none"}, tables : SUBSET Tables,
                  max_retries : {DefaultMaxRetries},
                  initial_delay : {DefaultInitialDelay},
                  backoff_factor : {DefaultBackoffFactor}]
    /\ attempt = 0
    /\ delay = args.initial_delay
    /\ slept = <<>>
    /\ log = <<>>
    /\ ret = [status |-> "running"]
    /\ IdleHistory
    /\ IdleSource

NextLoadJoin ==
    \/ ReadAttempt
    \/ ReadExhausted
    \/ LoadJoinReturn

SpecLoadJoin == InitLoadJoin /\ [][NextLoadJoin]_vars

---------------------------------------------------------------------------
(* Dedup-append: C1, C2 (under SpecWrite) *)

\* C1: dedup-append is idempotent.  When write_to_duckdb is called with the
\* DataFrame and the table of the call that returned just before it, the second
\* call leaves the table with the rows the first call left: no row is added and
\* the row count is unchanged.
C1_DedupAppendIdempotent ==
    [][wcall'.repeated =>
          /\ db' = db
          /\ Len_df(db'[wcall.table].rows) = Len_df(db[wcall.table].rows)]_vars

\* a second call with the same non-empty DataFrame went through the anti-join
\* insert of a table the first call had changed
C1_Witness ==
    /\ wcall.repeated
    /\ wcall.kind = "inserted"
    /\ ~is_empty(wcall.df)
    /\ KeysOf(wcall.df) \subseteq KeysOf(db[wcall.table].rows)

\* C2: within each table commitmentIndex is unique after write, in every state
\* reachable by write_to_duckdb calls from an absent table, for every input
\* DataFrame, those that carry a commitmentIndex more than once included.
C2_UniqueCommitmentIndex ==
    \A t \in Tables : \A k \in CommitmentIndexes : KeyCount(db[t].rows, k) <= 1

---------------------------------------------------------------------------
(* Cursors: C3 (under Spec), C4 (under SpecLatest) *)

\* C3: the cursor of each table is non-decreasing across cycles, whatever the
\* event queries return: the cursor a cycle computes for a table is at least the
\* one the cycle before computed, and every event query is requested from the
\* cursor of its cycle plus one.
C3_CursorMonotone ==
    [][/\ \A t \in Tables : cursor_seen'[t] >= cursor_seen[t]
       /\ (pc = "fetch" /\ pc' # "crashed") =>
             /\ TableList[i] \in DOMAIN latest_blocks
             /\ latest_blocks[TableList[i]] = cursor_seen[TableList[i]]
             /\ from_block' = cursor_seen[TableList[i]] + 1]_vars

\* a cycle after the first found a cursor of 2 for a table that also holds a
\* row of block 1, and requests its events from block 3
C3_Witness ==
    /\ pc \in {"fetch", "write"}
    /\ "commit_stores" \in DOMAIN dataframes
    /\ latest_blocks["commit_stores"] = 2
    /\ from_block = 3
    /\ \E r \in BagToSet(db["commit_stores"].rows) : r.block_number = 1

\* C4: get_latest_block_number returns 0 for a table that does not exist, 0 for
\* a table without rows, and otherwise the maximum block_number of the table's
\* rows; a missing table raises nothing, and the call leaves the store as it is.
C4_LatestPosition ==
    [][/\ db' = db
       /\ (lcall'.called /\ conn' = "ok") =>
             LET t == lcall'.table
                 blocks == {r.block_number : r \in BagToSet(db[t].rows)}
             IN /\ lcall'.raised = "none"
                /\ ~db[t].exists => lcall'.value = 0
                /\ (db[t].exists /\ blocks = {}) => lcall'.value = 0
                /\ (db[t].exists /\ blocks # {}) =>
                      /\ lcall'.value \in blocks
                      /\ \A b \in blocks : b <= lcall'.value]_vars

\* the call returned the larger of two different block numbers of a table
C4_Witness ==
    /\ lcall.called
    /\ conn = "ok"
    /\ lcall.value = 2
    /\ \E r \in BagToSet(db[lcall.table].rows) : r.block_number = 1

---------------------------------------------------------------------------
(* Join engine: C5 (under SpecJoin), C6 (under Spec) *)

\* the intersection of the key sets of the three DataFrames
CommonKeys(dfs) ==
    KeysOf(dfs["encrypted_stores"]) \cap KeysOf(dfs["commit_stores"])
        \cap KeysOf(dfs["commits_processed"])

\* C5: join_dataframes emits only rows whose commitmentIndex is in all three
\* inputs: a commitmentIndex missing from one input is in no output row.
C5_JoinOnlyCommonKeys ==
    commitments_df.returned =>
        /\ KeysOf(commitments_df.rows) \subseteq CommonKeys(dataframes)
        /\ \A k \in CommitmentIndexes :
              (\E t \in Tables : k \notin KeysOf(dataframes[t]))
                  => KeyCount(commitments_df.rows, k) = 0

\* the join returned rows for one key and dropped another key that two of the
\* three inputs carry
C5_Witness ==
    /\ commitments_df.returned
    /\ KeysOf(commitments_df.rows) = {1}
    /\ 2 \in KeysOf(dataframes["encrypted_stores"])
    /\ 2 \in KeysOf(dataframes["commit_stores"])
    /\ 2 \notin KeysOf(dataframes["commits_processed"])

\* the smallest of the three table sizes
MinTableSize(store) ==
    CHOOSE n \in {Len_df(store[t].rows) : t \in Tables} :
        \A t \in Tables : n <= Len_df(store[t].rows)

\* C6: the commitments view a cycle returns has at most min(|encrypted_stores|,
\* |commit_stores|, |commits_processed|) rows, and no commitmentIndex is in more
\* than one of its rows.
C6_ViewBoundedAndUnique ==
    (pc = "sleep" /\ commitments_df.returned) =>
        /\ Len_df(commitments_df.rows) <= MinTableSize(db)
        /\ \A k \in CommitmentIndexes : KeyCount(commitments_df.rows, k) <= 1

---------------------------------------------------------------------------
(* Retry of the reads: C7, C8, C9 (under SpecRetry) *)

RECURSIVE Pow(_, _)
Pow(b, n) == IF n = 0 THEN 1 ELSE b * Pow(b, n - 1)

RECURSIVE SumSeq(_)
SumSeq(q) == IF q = <<>> THEN 0 ELSE q[1] + SumSeq(Tail(q))

\* d + d*f + ... + d*f^(n-1)
RECURSIVE GeometricSum(_, _, _)
GeometricSum(d, f, n) == IF n = 0 THEN 0 ELSE d * Pow(f, n - 1) + GeometricSum(d, f, n - 1)

\* the lock conflicts among the outcomes of a log
LockConflicts(q) == {n \in 1..Len(q) : q[n] \in {"lock", "locked"}}

\* C7: retry success.  After N consecutive lock conflicts with N < max_retries
\* the read is still running, and when the next attempt succeeds it returns the
\* data read, having slept N times, for initial_delay, initial_delay *
\* backoff_factor, ..., initial_delay * backoff_factor^(N-1): the total wait is
\* that geometric sum, and nothing when N = 0.
C7_RetrySuccess ==
    LET N == Cardinality(LockConflicts(log))
    IN /\ (N = Len(log) /\ N < args.max_retries /\ args.fn # "none") =>
              /\ ret.status = "running"
              /\ attempt = N
       /\ (log # <<>> /\ log[Len(log)] = "ok"
              /\ \A t \in ReadTables(args) : table_exists(db, t)) =>
              ret.status = "returned"
       /\ (ret.status = "returned") =>
              /\ Len(log) = N + 1
              /\ log[Len(log)] = "ok"
              /\ N < args.max_retries
              /\ ret.data = ReadData(args, db)
              /\ Len(slept) = N
              /\ \A k \in 1..N :
                    slept[k] = args.initial_delay * Pow(args.backoff_factor, k - 1)
              /\ SumSeq(slept) =
                    GeometricSum(args.initial_delay, args.backoff_factor, N)

\* a read returned after three lock conflicts, its delays growing by a factor 2
C7_Witness ==
    /\ ret.status = "returned"
    /\ Len(slept) = 3
    /\ args.backoff_factor = 2
    /\ args.initial_delay = 1

\* C8: retry exhaustion.  Once max_retries consecutive lock conflicts have
\* occurred the read makes no further attempt and raises the terminal error,
\* which names the database and the attempt count max_retries; a read that
\* ended with that error made exactly max_retries attempts, all lock conflicts,
\* and returned no data.
C8_RetryExhaustion ==
    [][/\ (ret.status = "running"
              /\ Cardinality(LockConflicts(log)) >= args.max_retries) =>
             /\ ret'.status = "raised"
             /\ ret'.exc = RetriesExhausted(args)
             /\ log' = log
       /\ (ret'.status = "raised" /\ ret'.exc.class = "Exception") =>
             /\ Len(log') = args.max_retries
             /\ LockConflicts(log') = 1..Len(log')
             /\ ret'.exc.db_filename = DbFilename
             /\ ret'.exc.attempts = args.max_retries
             /\ "data" \notin DOMAIN ret']_vars

\* a read with the default max_retries gave up after five lock conflicts
C8_Witness ==
    /\ ret.status = "raised"
    /\ ret.exc.class = "Exception"
    /\ args.max_retries = 5
    /\ Len(log) = 5

\* C9: a failure that is not a lock conflict leaves the read at the attempt
\* where it occurs, whatever number of lock conflicts came before: the read
\* ends with that exception, not with the retries-exhausted error, no sleep
\* follows it and no further attempt is made.
C9_OtherFailurePropagates ==
    [][/\ (log' # log /\ log'[Len(log')] = "io") =>
             /\ ret'.status = "raised"
             /\ ret'.exc.class = "IOException"
             /\ ret'.exc # RetriesExhausted(args)
             /\ slept' = slept
             /\ attempt' = attempt
       /\ (log' # log /\ log'[Len(log')] = "ok"
              /\ \E t \in ReadTables(args) : ~table_exists(db, t)) =>
             /\ ret'.status = "raised"
             /\ ret'.exc.class = "CatalogException"
             /\ slept' = slept
       /\ (ret.status = "raised") => UNCHANGED <<log, slept, attempt, ret>>]_vars

\* an IOException that is no lock conflict ended a read after two retries
C9_Witness ==
    /\ ret.status = "raised"
    /\ ret.exc.class = "IOException"
    /\ Len(log) = 3
    /\ log[3] = "io"
    /\ Len(slept) = 2

---------------------------------------------------------------------------
(* Lock conflicts in a cycle: C10 (under Spec) *)

\* the storage calls of get_events
StorageOps == {"get_latest_block_number", "write_to_duckdb", "load_data_from_duckdb"}

---------------------------------------------------------------------------
(* Faults of a write in a cycle: C11 (under Spec) *)

\* the position of a table in the tables list, which is the order of the writes
IndexOf(t) == CHOOSE n \in 1..Len(TableList) : TableList[n] = t

\* C11 as claimed: when a write of a cycle ends with an IOException that is no
\* lock conflict, the exception leaves the cycle, the cycle returns no view, and
\* all three tables hold what they held at the end of the cycle before, those
\* written earlier in this cycle included.
C11_WriteFaultRestoresStore ==
    (pc = "crashed" /\ err.op = "write_to_duckdb" /\ err.raised = Raised("io")) =>
        /\ commitments_df = NoView
        /\ \A t \in Tables : db[t] = db_start[t]

\* C11 as amended: the exception leaves the cycle after one connection attempt
\* and the cycle returns no view; the failing write changes nothing; the table
\* of the failing write and the tables after it in the list hold what they held
\* at the end of the cycle before, while every table written earlier in this
\* cycle keeps what its write committed (each write has a connection of its
\* own and nothing undoes it).
C11_WriteFaultAbortsCycle ==
    [][(pc = "write" /\ conn' = "io") =>
          /\ pc' = "crashed"
          /\ err' = [raised |-> Raised("io"), op |-> "write_to_duckdb",
                     connects |-> 1]
          /\ commitments_df' = NoView
          /\ ~is_empty(dataframes[TableList[i]])
          /\ db' = db
          /\ \A t \in Tables :
                /\ IndexOf(t) >= i => db'[t] = db_start[t]
                /\ IndexOf(t) < i =>
                      db'[t] = write_to_duckdb(dataframes[t], t, db_start, "ok").store[t]
                /\ \A r \in BagToSet(db_start[t].rows) :
                      CopiesIn(r, db'[t].rows) >= CopiesIn(r, db_start[t].rows)]_vars

\* the write of the second table failed after the first write of the cycle had
\* added rows to a table that existed before
C11_Witness ==
    /\ pc = "crashed"
    /\ err.op = "write_to_duckdb"
    /\ err.raised = Raised("io")
    /\ db_start["commit_stores"].exists
    /\ db["commit_stores"] # db_start["commit_stores"]
    /\ db["encrypted_stores"] = db_start["encrypted_stores"]

---------------------------------------------------------------------------
(* A query without rows: C12, C13 (under Spec) *)

\* the keys the three tables of a store have in common
StoredCommonKeys(store) ==
    KeysOf(store["encrypted_stores"].rows) \cap KeysOf(store["commit_stores"].rows)
        \cap KeysOf(store["commits_processed"].rows)

C13_FetchFromCursor ==
    [][/\ (pc = "fetch" /\ pc' # "crashed") =>
             LET t == TableList[i]
                 blocks == {r.block_number : r \in BagToSet(db_start[t].rows)}
             IN /\ from_block' = latest_blocks[t] + 1
                /\ from_block' = (IF blocks = {} THEN 0 ELSE SetMax(blocks)) + 1
                /\ DOMAIN dataframes' = DOMAIN dataframes \cup {t}
       /\ (pc = "fetch" /\ no_data' # no_data) =>
             /\ no_data' = no_data \cup {TableList[i]}
             /\ err' = NoErr
             /\ pc' = (IF i < Len(TableList) THEN "fetch" ELSE "write")
             /\ i' = (IF i < Len(TableList) THEN i + 1 ELSE 1)
             /\ TableList[i] \in DOMAIN dataframes'
             /\ dataframes'[TableList[i]] = EmptyBag
             /\ db' = db
       /\ (pc = "fetch" /\ pc' = "write") => DOMAIN dataframes' = Tables
       /\ (pc = "write" /\ pc' = "load") =>
             {write_info'[n].table : n \in 1..Len(write_info')} = Tables]_vars

\* the query of the first table had no data; the two tables after it were
\* fetched, from the block after their cursors, and written
C13_Witness ==
    /\ pc = "load"
    /\ "commit_stores" \in no_data
    /\ Len(write_info) = Len(TableList)
    /\ write_info[1].kind = "no new data"
    /\ write_info[2].kind = "inserted"
    /\ write_info[3].kind = "created"
    /\ from_block = latest_blocks["commits_processed"] + 1
    /\ latest_blocks["encrypted_stores"] > 0

---------------------------------------------------------------------------
(* Life cycle of the tables: C14 (under Spec) *)

\* C14: tables are append-only and created lazily.  No step removes a table or
\* a row, and none changes a row: every row of a table is in it as often, or
\* more often, after the step, and the rows of a commitmentIndex the table
\* already holds stay exactly the rows it held (a fetched row with that
\* commitmentIndex replaces nothing and is not added).  A table comes into
\* being only in a write_to_duckdb call for it whose DataFrame has rows and
\* whose connection opened, holding those rows; so no table exists without
\* rows.
C14_AppendOnlyLazyCreate ==
    [][\A t \in Tables :
          /\ db[t].exists => db'[t].exists
          /\ \A r \in BagToSet(db[t].rows) :
                CopiesIn(r, db'[t].rows) >= CopiesIn(r, db[t].rows)
          /\ \A k \in KeysOf(db[t].rows) :
                KeyCount(db'[t].rows, k) = KeyCount(db[t].rows, k)
          /\ (~db[t].exists /\ db'[t].exists) =>
                /\ pc = "write"
                /\ TableList[i] = t
                /\ ~is_empty(dataframes[t])
                /\ conn' = "ok"
                /\ pc' # "crashed"
                /\ db'[t].rows = dataframes[t]
                /\ write_info'[Len(write_info')].kind = "created"
          /\ db'[t].exists <=> ~is_empty(db'[t].rows)]_vars

\* a write has gone through the INSERT of a table whose DataFrame held a row
\* with a stored commitmentIndex and another block_number: the stored row is
\* there, the fetched one is not
C14_Witness ==
    /\ pc \in {"write", "load"}
    /\ \E n \in 1..Len(write_info) :
         LET t == write_info[n].table
         IN /\ write_info[n].kind = "inserted"
            /\ \E r \in BagToSet(dataframes[t]), x \in BagToSet(db_start[t].rows) :
                 /\ r.commitmentIndex = x.commitmentIndex
                 /\ r.block_number # x.block_number
                 /\ CopiesIn(r, db[t].rows) = 0
                 /\ CopiesIn(x, db[t].rows) = CopiesIn(x, db_start[t].rows)

---------------------------------------------------------------------------
(* load_and_join_data: C15 (under SpecLoadJoin) *)

\* C15: load_and_join_data never raises.  Whatever ends the read (the retries
\* exhausted, an IOException that is no lock conflict, a table that does not
\* exist) and whatever the join raises (a table name missing from the dict, a
\* column missing from a table), the call returns, and returns a DataFrame
\* without rows; without a failure it returns the join of the tables read,
\* which has no rows either when the tables share no commitmentIndex.
C15_LoadAndJoinNeverRaises ==
    /\ pc # "crashed"
    /\ err = NoErr
    /\ (ret.status \in {"returned", "raised"}) => ENABLED LoadJoinReturn \/ pc = "returned"
    /\ (pc = "returned") =>
          /\ commitments_df.returned
          /\ (ret.status = "raised") => is_empty(commitments_df.rows)
          /\ (ret.status = "returned" /\ args.tables # Tables) =>
                is_empty(commitments_df.rows)
          /\ (ret.status = "returned" /\ db = ForeignStore) =>
                is_empty(commitments_df.rows)
          /\ (ret.status = "returned" /\ args.tables = Tables /\ db # ForeignStore) =>
                KeysOf(commitments_df.rows) = StoredCommonKeys(db)

\* the call returned an empty DataFrame after read_db had given up on five
\* lock conflicts
C15_Witness ==
    /\ pc = "returned"
    /\ commitments_df.returned
    /\ is_empty(commitments_df.rows)
    /\ ret.status = "raised"
    /\ ret.exc = RetriesExhausted(args)
    /\ Len(log) = DefaultMaxRetries

---------------------------------------------------------------------------
(* The view of a cycle: C16 (under Spec) *)

\* the triples of an encrypted_stores, a commit_stores and a commits_processed
\* row of a store that carry the same commitmentIndex
MatchingTriples(store) ==
    {x \in BagToSet(store["encrypted_stores"].rows)
            \X BagToSet(store["commit_stores"].rows)
            \X BagToSet(store["commits_processed"].rows) :
        /\ x[1].commitmentIndex = x[2].commitmentIndex
        /\ x[2].commitmentIndex = x[3].commitmentIndex}

\* the commitment a triple stands for
CommitmentOf(x) ==
    [block_number_encrypted |-> x[1].block_number,
     txnHash |-> "0x" \o x[2].txnHash,
     isSlash |-> x[3].isSlash,
     commitmentIndex |-> x[1].commitmentIndex]

\* how often the tables of a store give the commitment v
CommitmentCopies(store, v) ==
    BagCardinality([x \in {y \in MatchingTriples(store) : CommitmentOf(y) = v} |->
        CopiesIn(x[1], store["encrypted_stores"].rows)
            * CopiesIn(x[2], store["commit_stores"].rows)
            * CopiesIn(x[3], store["commits_processed"].rows)])

\* C16: the view a cycle returns is computed anew from the whole content of
\* the three tables as the writes of the cycle left them, the rows of earlier
\* cycles included: it holds exactly the commitments of the matching row
\* triples of the stored tables, each as often as the tables give it, and the
\* block_number_encrypted of every row is the block_number of an
\* encrypted_stores row with the row's commitmentIndex.
C16_ViewFromStoredTables ==
    (pc = "sleep" /\ commitments_df.returned) =>
        /\ BagToSet(commitments_df.rows) =
              {CommitmentOf(x) : x \in MatchingTriples(db)}
        /\ \A v \in BagToSet(commitments_df.rows) :
              /\ CopiesIn(v, commitments_df.rows) = CommitmentCopies(db, v)
              /\ \E e \in BagToSet(db["encrypted_stores"].rows) :
                    /\ e.commitmentIndex = v.commitmentIndex
                    /\ e.block_number = v.block_number_encrypted

\* a cycle returned a view with a row built from rows of earlier cycles, whose
\* block_number_encrypted is not the block_number of a commit_stores row with
\* its commitmentIndex
C16_Witness ==
    /\ pc = "sleep"
    /\ commitments_df.returned
    /\ \E v \in BagToSet(commitments_df.rows) :
         /\ \A c \in BagToSet(db["commit_stores"].rows) :
               c.commitmentIndex = v.commitmentIndex
                  => c.block_number # v.block_number_encrypted
         /\ \E t \in Tables : v.commitmentIndex \in KeysOf(db_start[t].rows)
    /\ db # db_start

---------------------------------------------------------------------------
(* The txnHash of the view: C17 (under SpecJoin) *)

\* the first two characters of a txnHash string of the model
Prefix2(h) == CHOOSE q \in {"0x", "ab"} : \E rest \in {"", "ab", "0xab"} : h = q \o rest

\* C17: every txnHash of the output of join_dataframes starts with "0x" and
\* is "0x" followed by the txnHash of a commit_stores row with the output
\* row's commitmentIndex, whether or not that txnHash has the prefix already
\* (the input "0xab" comes out as "0x0xab"); and every commit_stores txnHash
\* of a commitmentIndex in the output comes out in that form.
C17_TxnHashPrefixed ==
    commitments_df.returned =>
        \A v \in BagToSet(commitments_df.rows) :
            /\ v.txnHash \in {"0x" \o h : h \in TxnHashes}
            /\ Prefix2(v.txnHash) = "0x"
            /\ \E c \in BagToSet(dataframes["commit_stores"]) :
                  /\ c.commitmentIndex = v.commitmentIndex
                  /\ v.txnHash = "0x" \o c.txnHash
            /\ \A c \in BagToSet(dataframes["commit_stores"]) :
                  c.commitmentIndex = v.commitmentIndex =>
                     \E w \in BagToSet(commitments_df.rows) :
                        /\ w.commitmentIndex = v.commitmentIndex
                        /\ w.txnHash = "0x" \o c.txnHash

\* the join returned a row for a txnHash with the prefix and a row for one
\* without it
C17_Witness ==
    /\ commitments_df.returned
    /\ \E v, w \in BagToSet(commitments_df.rows) :
         /\ v.txnHash = "0x0xab"
         /\ w.txnHash = "0xab"
    /\ \E c \in BagToSet(dataframes["commit_stores"]) : c.txnHash = "0xab"

---------------------------------------------------------------------------
(* A table that does not exist at the re-read: C18 (under Spec) *)

\* C18: when one of the three tables still does not exist after the writes of
\* a cycle, load_data_from_duckdb raises (a CatalogException when the
\* connection opens), get_events raises with it instead of returning a view,
\* and the store stays as the writes left it.  The poll loop has no handler:
\* the process ends there, and nothing runs after it but a new start of the
\* program on the same file.
C18_MissingTableStopsLoop ==
    [][/\ (pc = "load" /\ \E t \in Tables : ~db[t].exists) =>
             /\ pc' = "crashed"
             /\ err'.op = "load_data_from_duckdb"
             /\ err'.raised = (IF conn' = "ok" THEN "CatalogException" ELSE Raised(conn'))
             /\ commitments_df' = NoView
             /\ db' = db
       /\ (pc = "crashed") =>
             /\ pc' = "latest"
             /\ conn' = "none"
             /\ err' = NoErr
             /\ db' = db
             /\ latest_blocks' = <<>>
             /\ dataframes' = <<>>
             /\ write_info' = <<>>
             /\ commitments_df' = NoView]_vars

\* the first cycle on a new file created two tables, found no data for the
\* third, and ended in the CatalogException of the re-read
C18_Witness ==
    /\ pc = "crashed"
    /\ err.op = "load_data_from_duckdb"
    /\ err.raised = "CatalogException"
    /\ conn = "ok"
    /\ db_start = EmptyStore
    /\ db["commit_stores"].exists
    /\ db["encrypted_stores"].exists
    /\ ~db["commits_processed"].exists
    /\ "commits_processed" \in no_data

---------------------------------------------------------------------------
(* Quiescence: C19 (under SpecQuiesce) *)

\* C19: on an event source that holds a fixed set of events, every query
\* returning its events from from_block on, and without faults, the first
\* cycle may still change the tables; every cycle after it leaves the three
\* tables as it found them and returns the view the cycle before returned,
\* also when it fetches rows again that the anti-join then drops.
C19_Quiescence ==
    /\ (cycles >= 1) => db = db_start
    /\ (cycles >= 1 /\ pc = "sleep") =>
          /\ commitments_df.returned
          /\ commitments_df = last_view
    /\ (cycles >= 1) => pc # "crashed"

\* the third cycle returned the view with rows that the second returned, after
\* fetching rows whose commitmentIndex the table already held
C19_Witness ==
    /\ cycles = 2
    /\ pc = "sleep"
    /\ ~is_empty(commitments_df.rows)
    /\ commitments_df = last_view
    /\ \E t \in Tables :
         /\ t \notin no_data
         /\ SourceEvents(chain, t, SelectMax(db, t).value + 1) # {}
    /\ db = db_start

---------------------------------------------------------------------------
(* Termination of the reads: C20 (under SpecRetryFair) *)

\* C20: read_db and read_single_table end, whatever the outcomes of their
\* connection attempts.  attempt counts the lock conflicts and nothing else
\* and never exceeds max_retries; no more than max_retries connection attempts
\* are made; every lock conflict, the last one before the terminal error
\* included, is followed by one sleep; and with max_retries = 0 the terminal
\* error is raised without a connection attempt.
C20_ReadTerminates ==
    /\ [](/\ attempt = Cardinality(LockConflicts(log))
          /\ attempt <= args.max_retries
          /\ Len(log) <= args.max_retries
          /\ Len(slept) = Cardinality(LockConflicts(log))
          /\ (ret.status = "raised" /\ ret.exc = RetriesExhausted(args)) =>
                /\ Len(slept) = args.max_retries
                /\ (args.max_retries > 0 => log[Len(log)] \in {"lock", "locked"})
          /\ (args.max_retries = 0 /\ ret.status # "running") =>
                /\ log = <<>>
                /\ ret.status = "raised"
                /\ ret.exc = RetriesExhausted(args))
    /\ <>(ret.status \in {"returned", "raised"})

\* a read gave up after max_retries = 2 lock conflicts, having slept after the
\* second as after the first
C20_Witness ==
    /\ ret.status = "raised"
    /\ ret.exc = RetriesExhausted(args)
    /\ args.max_retries = 2
    /\ Len(log) = 2
    /\ Len(slept) = 2

====
